---- MODULE Spec2Model ----
(***************************************************************************)
(* Model of src/src/lib.rs: the Google OAuth2 authorization-code adapter.  *)
(*                                                                         *)
(*   Google::new              -> action New                                *)
(*   Google::get_redirect_url -> action GetRedirectUrl                     *)
(*   Google::get_userinfo     -> actions Call, TokenResponse,              *)
(*                               ProfileResponse, BodyRead (one per        *)
(*                               stretch of code between two .await)       *)
(*                                                                         *)
(* Strings are sequences of symbols.  A symbol is a single character       *)
(* ("a", ":", "&", " ") or a word the model never looks inside             *)
(* ("client_id", "openid", "%3A").                                         *)
(***************************************************************************)
EXTENDS Integers, Sequences, FiniteSets, TLC

\* ---------------------------------------------------------------- bounds
MaxLen == 3    \* longest callback_url given to Google::new
NCalls == 2    \* concurrent get_userinfo calls on the one client (Spec)
NCsrf  == 2    \* distinct values CsrfToken::new_random can return

\* ---------------------------------------------------------------- strings
Alphabet == {"a", ":", "&", " "}

StrUpTo(n) == UNION {[1..k -> Alphabet] : k \in 0..n}

\* url::Url::parse drops leading and trailing spaces before parsing.
RECURSIVE TrimStart(_)
TrimStart(s) ==
    IF s # <<>> /\ Head(s) = " " THEN TrimStart(Tail(s)) ELSE s

\* The scheme state of the URL parser: one ASCII letter, then scheme
\* characters, then ":".  Anything else before the ":" is not a scheme and
\* the string is a relative reference, which has no base here.
RECURSIVE SchemeEnd(_, _)
SchemeEnd(s, i) ==
    IF i > Len(s) THEN 0
    ELSE IF s[i] = "a" THEN SchemeEnd(s, i + 1)
    ELSE IF s[i] = ":" /\ i > 1 THEN i
    ELSE 0

\* Url::parse(s).is_ok() for a string over Alphabet.  The scheme "a..." is
\* not special, so whatever follows the ":" is an opaque path and parses.
UrlParseOk(s) == SchemeEnd(TrimStart(s), 1) > 0

\* ---------------------------------------------------------------- src/src/lib.rs:53,55,118
AuthUrl     == <<"https://accounts.google.com/o/oauth2/auth">>
TokenUrl    == <<"https://accounts.google.com/o/oauth2/token">>
UserInfoUrl == <<"https://www.googleapis.com/oauth2/v3/userinfo">>

\* ---------------------------------------------------------------- inputs
AppIds     == {<<"a">>, <<"&">>, <<"a", " ">>}
AppSecrets == {<<"a">>, <<":", "a">>}
CallbackUrls == StrUpTo(MaxLen)
\* CsrfToken::new_random: a fresh base64url string, here one of NCsrf.
CsrfTokens == {<<"a", ToString(i)>> : i \in 1..NCsrf}

\* What Google::new left behind: nothing yet, a panic, or a Google.
Outcome(state, id, secret, redirect) ==
    [state         |-> state,
     client_id     |-> id,
     client_secret |-> secret,
     auth_url      |-> IF state = "Google" THEN AuthUrl ELSE <<>>,
     token_url     |-> IF state = "Google" THEN TokenUrl ELSE <<>>,
     redirect_url  |-> redirect]

NoClient == Outcome("NoClient", <<>>, <<>>, <<>>)
Panicked == Outcome("Panicked", <<>>, <<>>, <<>>)
NoUrl    == <<>>

\* ---------------------------------------------------------------- Google::new
\* RedirectUrl::new(callback_url): Ok keeps the string as given, Err is
\* unwrapped at lib.rs:57, which panics.
RedirectUrlNew(callback_url) ==
    IF UrlParseOk(callback_url)
    THEN [ok |-> TRUE, url |-> callback_url]
    ELSE [ok |-> FALSE, url |-> <<>>]

\* The value Google::new evaluates to: a Google holding the BasicClient, or
\* a panic out of unwrap().  The two fixed URLs parse, so lines 53 and 55
\* never panic.
GoogleNew(appid, app_secret, callback_url) ==
    LET redirect_url == RedirectUrlNew(callback_url)
    IN  IF ~redirect_url.ok THEN Panicked
        ELSE Outcome("Google", appid, app_secret, redirect_url.url)

\* ---------------------------------------------------------------- Google::get_redirect_url
\* form_urlencoded::byte_serialize on one symbol: letters, digits and
\* "*-._" stay, a space becomes "+", every other byte becomes %XX.
EncodeSym(c) ==
    CASE c = " " -> "+"
      [] c = ":" -> "%3A"
      [] c = "&" -> "%26"
      [] c = "=" -> "%3D"
      [] c = "+" -> "%2B"
      [] c = "%" -> "%25"
      [] OTHER   -> c

FormEncode(s) == [i \in 1..Len(s) |-> EncodeSym(s[i])]

\* Scope list joined with single spaces (oauth2: scopes.join(" ")).
RECURSIVE JoinScopes(_)
JoinScopes(scopes) ==
    IF scopes = <<>> THEN <<>>
    ELSE IF Len(scopes) = 1 THEN <<scopes[1]>>
    ELSE <<scopes[1], " ">> \o JoinScopes(Tail(scopes))

\* The scopes added at lib.rs:73-75, in order.
RequestedScopes == <<"openid", "email", "profile">>

\* url.query_pairs_mut().extend_pairs(pairs): k=v joined with "&", both
\* sides form-urlencoded.
RECURSIVE SerializePairs(_)
SerializePairs(pairs) ==
    IF pairs = <<>> THEN <<>>
    ELSE LET p == pairs[1]
             one == FormEncode(p[1]) \o <<"=">> \o FormEncode(p[2])
         IN  IF Len(pairs) = 1 THEN one
             ELSE one \o <<"&">> \o SerializePairs(Tail(pairs))

\* Mutant: the secret is passed along with the client id.
AuthorizePairsWithSecret(cl, csrf, scopes) ==
    << <<  <<"response_type">>, <<"code">>  >>,
       <<  <<"client_id">>,     cl.client_id  >>,
       <<  <<"client_secret">>, cl.client_secret  >>,
       <<  <<"state">>,         csrf  >> ,
       <<  <<"redirect_uri">>,  cl.redirect_url  >> >>
    \o (IF scopes = <<>> THEN <<>>
        ELSE << << <<"scope">>, JoinScopes(scopes) >> >>)

\* The pairs oauth2's authorize_url().url() appends, in its order.
AuthorizePairs(cl, csrf, scopes) ==
    << <<  <<"response_type">>, <<"code">>  >>,
       <<  <<"client_id">>,     cl.client_id  >>,
       <<  <<"state">>,         csrf  >> ,
       <<  <<"redirect_uri">>,  cl.redirect_url  >> >>
    \o (IF scopes = <<>> THEN <<>>
        ELSE << << <<"scope">>, JoinScopes(scopes) >> >>)

\* auth_url.to_string() at lib.rs:78.
AuthorizeUrl(cl, csrf) ==
    cl.auth_url \o <<"?">> \o SerializePairs(AuthorizePairs(cl, csrf, RequestedScopes))

\* ---------------------------------------------------------------- UserInfo (serde)
Fields == {"sub", "name", "given_name", "family_name", "picture", "email",
           "email_verified", "locale"}

\* A JSON member of the response object: not there, or a value of a type.
JAbsent  == [t |-> "absent", v |-> ""]
JNull    == [t |-> "null",   v |-> ""]
JNum     == [t |-> "number", v |-> "7"]
JStr(s)  == [t |-> "string", v |-> s]
JBool(b) == [t |-> "bool",   v |-> IF b THEN "true" ELSE "false"]

None    == [some |-> FALSE, v |-> ""]
Some(s) == [some |-> TRUE,  v |-> s]

\* Mutant: #[serde(default)] on the String members.
DeStringDefault(j) ==
    CASE j.t = "string" -> [ok |-> TRUE, v |-> j.v]
      [] j.t = "absent" -> [ok |-> TRUE, v |-> ""]
      [] OTHER          -> [ok |-> FALSE, v |-> ""]

\* Deserialize of String: the member must be there and be a JSON string.
DeString(j) ==
    IF j.t = "string" THEN [ok |-> TRUE, v |-> j.v] ELSE [ok |-> FALSE, v |-> ""]

\* Deserialize of bool.
DeBool(j) ==
    IF j.t = "bool" THEN [ok |-> TRUE, v |-> (j.v = "true")]
    ELSE [ok |-> FALSE, v |-> FALSE]

\* Deserialize of Option<String>: a missing member and null are both None,
\* a string is Some, any other type is an error.
DeOptString(j) ==
    CASE j.t \in {"absent", "null"} -> [ok |-> TRUE, v |-> None]
      [] j.t = "string"             -> [ok |-> TRUE, v |-> Some(j.v)]
      [] OTHER                      -> [ok |-> FALSE, v |-> None]

NoUserInfo == [none |-> TRUE]

\* Mutant: the renames of open_id and username on the wrong members.
UserInfoFromJsonRenamesSwapped(body) ==
    LET sub    == DeString(body.obj["sub"])
        name   == DeString(body.obj["name"])
        given  == DeOptString(body.obj["given_name"])
        family == DeOptString(body.obj["family_name"])
        pic    == DeString(body.obj["picture"])
        email  == DeString(body.obj["email"])
        ev     == DeBool(body.obj["email_verified"])
        locale == DeOptString(body.obj["locale"])
    IN  IF body.json /\ sub.ok /\ name.ok /\ given.ok /\ family.ok /\ pic.ok
           /\ email.ok /\ ev.ok /\ locale.ok
        THEN [ok |-> TRUE,
              value |-> [open_id        |-> name.v,
                         username       |-> sub.v,
                         given_name     |-> given.v,
                         family_name    |-> family.v,
                         profile_url    |-> pic.v,
                         email          |-> email.v,
                         email_verified |-> ev.v,
                         locale         |-> locale.v]]
        ELSE [ok |-> FALSE, value |-> NoUserInfo]

\* response.json::<UserInfo>() on a body read in full: the derived
\* Deserialize of the struct at lib.rs:15-31, with its renames.
UserInfoFromJson(body) ==
    LET sub    == DeString(body.obj["sub"])
        name   == DeString(body.obj["name"])
        given  == DeOptString(body.obj["given_name"])
        family == DeOptString(body.obj["family_name"])
        pic    == DeString(body.obj["picture"])
        email  == DeString(body.obj["email"])
        ev     == DeBool(body.obj["email_verified"])
        locale == DeOptString(body.obj["locale"])
    IN  IF body.json /\ sub.ok /\ name.ok /\ given.ok /\ family.ok /\ pic.ok
           /\ email.ok /\ ev.ok /\ locale.ok
        THEN [ok |-> TRUE,
              value |-> [open_id        |-> sub.v,
                         username       |-> name.v,
                         given_name     |-> given.v,
                         family_name    |-> family.v,
                         profile_url    |-> pic.v,
                         email          |-> email.v,
                         email_verified |-> ev.v,
                         locale         |-> locale.v]]
        ELSE [ok |-> FALSE, value |-> NoUserInfo]

\* ---------------------------------------------------------------- the two endpoints
RequiredStrings == {"sub", "name", "picture", "email"}
OptionalStrings == {"given_name", "family_name", "locale"}

\* What the user-info endpoint may put under each member name.
MemberValues(f) ==
    IF f \in RequiredStrings THEN {JAbsent, JNull, JStr(f)}
    ELSE IF f = "email_verified" THEN {JAbsent, JBool(TRUE), JBool(FALSE), JStr(f)}
    ELSE {JAbsent, JNull, JStr(f), JNum}

JsonObjects ==
    [sub            : MemberValues("sub"),
     name           : MemberValues("name"),
     given_name     : MemberValues("given_name"),
     family_name    : MemberValues("family_name"),
     picture        : MemberValues("picture"),
     email          : MemberValues("email"),
     email_verified : MemberValues("email_verified"),
     locale         : MemberValues("locale")]

NotJson == [json |-> FALSE, obj |-> [f \in Fields |-> JAbsent]]

AllBodies == {[json |-> TRUE, obj |-> o] : o \in JsonObjects} \cup {NotJson}

\* The body of the spec's example, one with every member, one without "sub".
\* Spec, which interleaves calls, draws from the first and the last.
MinimalBody ==
    [json |-> TRUE,
     obj  |-> [f \in Fields |->
                 IF f \in RequiredStrings THEN JStr(f)
                 ELSE IF f = "email_verified" THEN JBool(TRUE)
                 ELSE JAbsent]]
FullBody ==
    [json |-> TRUE,
     obj  |-> [f \in Fields |->
                 IF f = "email_verified" THEN JBool(TRUE) ELSE JStr(f)]]
NoSubBody == [MinimalBody EXCEPT !.obj["sub"] = JAbsent]

CoreBodies == {MinimalBody, NoSubBody}

AccessTokens == {"t1", "t2"}
Codes        == {"code1", "code2"}

NoToken == "NoToken"

\* What request_async(async_http_client) can resolve to.
TokenResponses ==
    {[kind |-> k, access_token |-> NoToken] : k \in {"transport", "status", "parse"}}
    \cup {[kind |-> "ok", access_token |-> t] : t \in AccessTokens}

\* What send() can resolve to: no response at all, or a status and a body.
ProfileResponsesOver(statuses, bodies) ==
    {[kind |-> "transport", status |-> 0, body |-> NotJson]}
    \cup {[kind |-> "http", status |-> st, body |-> b] :
             st \in statuses, b \in bodies}

CoreProfileResponses == ProfileResponsesOver({200, 500}, CoreBodies)
AllProfileResponses  == ProfileResponsesOver({200, 204, 401, 500}, AllBodies)

NoResponse == [kind |-> "none"]

\* StatusCode::is_success
IsSuccess(status) == status >= 200 /\ status <= 299

\* ---------------------------------------------------------------- Google::get_userinfo
Pending == [kind |-> "Pending", err |-> "", cause |-> "", value |-> NoUserInfo]
Ok(u)   == [kind |-> "Ok",      err |-> "", cause |-> "", value |-> u]
\* Err(Box<dyn Error>): err names the step whose error was boxed, cause the
\* error that was boxed.
Err(e, cause) == [kind |-> "Err", err |-> e, cause |-> cause, value |-> NoUserInfo]

NewCall ==
    [pc |-> "Start", code |-> "", token |-> NoToken,
     token_resp |-> NoResponse, profile_resp |-> NoResponse,
     result |-> Pending, trace |-> <<"Start">>]

Goto(call, pc) == [call EXCEPT !.pc = pc, !.trace = Append(call.trace, pc)]

\* lib.rs:105-109: exchange_code(code).request_async(..): the POST.
TokenRequest(cl, code) ==
    [method |-> "POST", url |-> cl.token_url, code |-> code,
     client_id |-> cl.client_id, client_secret |-> cl.client_secret,
     redirect_uri |-> cl.redirect_url, bearer |-> NoToken]

\* lib.rs:117-120: Client::new().get(..).bearer_auth(token.secret()): the GET.
ProfileRequest(token) ==
    [method |-> "GET", url |-> UserInfoUrl, code |-> "",
     client_id |-> <<>>, client_secret |-> <<>>,
     redirect_uri |-> <<>>, bearer |-> token]

\* Mutant: the error arm records the error and does not return.
AfterTokenNoReturn(call, resp) ==
    IF resp.kind # "ok"
    THEN [call |-> [Goto(call, "AwaitProfile") EXCEPT
                       !.token_resp = resp,
                       !.result = Err("TokenExchangeError", resp.kind)],
          send |-> <<ProfileRequest(NoToken)>>]
    ELSE [call |-> [Goto(call, "AwaitProfile") EXCEPT
                       !.token_resp = resp,
                       !.token = resp.access_token],
          send |-> <<ProfileRequest(resp.access_token)>>]

\* Mutant: a transport failure of the token request is tried again.
AfterTokenRetry(call, resp) ==
    IF resp.kind = "transport"
    THEN [call |-> Goto(call, "AwaitToken"),
          send |-> <<[ProfileRequest(NoToken) EXCEPT
                         !.method = "POST", !.url = TokenUrl, !.code = call.code]>>]
    ELSE IF resp.kind # "ok"
    THEN [call |-> [Goto(call, "Done") EXCEPT
                       !.token_resp = resp,
                       !.result = Err("TokenExchangeError", resp.kind)],
          send |-> <<>>]
    ELSE [call |-> [Goto(call, "AwaitProfile") EXCEPT
                       !.token_resp = resp,
                       !.token = resp.access_token],
          send |-> <<ProfileRequest(resp.access_token)>>]

\* lib.rs:105-120, from the token response to the next await: the error
\* arm returns, the Ok arm keeps the access token and sends the GET.
AfterToken(call, resp) ==
    IF resp.kind # "ok"
    THEN [call |-> [Goto(call, "Done") EXCEPT
                       !.token_resp = resp,
                       !.result = Err("TokenExchangeError", resp.kind)],
          send |-> <<>>]
    ELSE [call |-> [Goto(call, "AwaitProfile") EXCEPT
                       !.token_resp = resp,
                       !.token = resp.access_token],
          send |-> <<ProfileRequest(resp.access_token)>>]

\* Mutant: the status check at lib.rs:123 is missing.
AfterProfileNoStatusCheck(call, resp) ==
    IF resp.kind = "transport"
    THEN [Goto(call, "Done") EXCEPT
             !.profile_resp = resp,
             !.result = Err("ProfileFetchError", "transport")]
    ELSE [Goto(call, "AwaitBody") EXCEPT !.profile_resp = resp]

\* lib.rs:121-125: `?` on the send error, then the status check.
AfterProfile(call, resp) ==
    IF resp.kind = "transport"
    THEN [Goto(call, "Done") EXCEPT
             !.profile_resp = resp,
             !.result = Err("ProfileFetchError", "transport")]
    ELSE IF ~IsSuccess(resp.status)
    THEN [Goto(call, "Done") EXCEPT
             !.profile_resp = resp,
             !.result = Err("ProfileFetchError", "status")]
    ELSE [Goto(call, "AwaitBody") EXCEPT !.profile_resp = resp]

\* Mutant: a body that does not parse yields an empty profile.
AfterBodyDefaultOnError(call) ==
    LET parsed == UserInfoFromJson(call.profile_resp.body)
        empty  == [open_id |-> "", username |-> "", given_name |-> None,
                   family_name |-> None, profile_url |-> "", email |-> "",
                   email_verified |-> FALSE, locale |-> None]
    IN  [Goto(call, "Done") EXCEPT
            !.result = IF parsed.ok THEN Ok(parsed.value) ELSE Ok(empty)]

\* lib.rs:127-134: json::<UserInfo>() and the match on it.
AfterBody(call) ==
    LET parsed == UserInfoFromJson(call.profile_resp.body)
    IN  [Goto(call, "Done") EXCEPT
            !.result = IF parsed.ok THEN Ok(parsed.value)
                       ELSE Err("ProfileParseError", "decode")]

\* ---------------------------------------------------------------- state
VARIABLES
    client,    \* the value Google::new produced: NoClient before the call
    url_out,   \* what the last get_redirect_url returned
    calls,     \* each get_userinfo future: its position and its locals
    sent       \* the HTTP requests each get_userinfo call has issued

vars == <<client, url_out, calls, sent>>

Calls == 1..NCalls

IsGoogle(c) == c.state = "Google"

InitCalls ==
    /\ calls = [c \in Calls |-> NewCall]
    /\ sent = [c \in Calls |-> <<>>]

Init ==
    /\ client = NoClient
    /\ url_out = NoUrl
    /\ InitCalls

\* Google::new(appid, app_secret, callback_url)
New(appid, app_secret, callback_url) ==
    /\ client = NoClient
    /\ client' = GoogleNew(appid, app_secret, callback_url)
    /\ UNCHANGED <<url_out, calls, sent>>

\* Mutant: the client keeps the token it generated.
GetRedirectUrlKeepingToken(csrf) ==
    /\ IsGoogle(client)
    /\ url_out' = AuthorizeUrl(client, csrf)
    /\ client' = [client EXCEPT !.client_secret = csrf]
    /\ UNCHANGED <<calls, sent>>

\* Google::get_redirect_url(&self), with the token new_random drew.
GetRedirectUrl(csrf) ==
    /\ IsGoogle(client)
    /\ url_out' = AuthorizeUrl(client, csrf)
    /\ UNCHANGED <<client, calls, sent>>

\* get_userinfo(&self, code), first poll: up to the await at lib.rs:109.
Call(c, code) ==
    /\ IsGoogle(client)
    /\ calls[c].pc = "Start"
    /\ calls' = [calls EXCEPT ![c] = [Goto(@, "AwaitToken") EXCEPT !.code = code]]
    /\ sent' = [sent EXCEPT ![c] = Append(@, TokenRequest(client, code))]
    /\ UNCHANGED <<client, url_out>>

\* Mutant: the access token is kept in a slot all calls share, and the
\* GET takes whatever the slot holds.
TokenResponseSharedToken(c, resp) ==
    /\ calls[c].pc = "AwaitToken"
    /\ LET next   == AfterToken(calls[c], resp)
           others == {calls[d].token : d \in Calls \ {c}} \ {NoToken}
           slot   == IF others = {} THEN resp.access_token
                     ELSE CHOOSE t \in others : TRUE
       IN  /\ calls' = [calls EXCEPT ![c] = next.call]
           /\ sent' = [sent EXCEPT ![c] =
                          @ \o [i \in 1..Len(next.send) |->
                                  [next.send[i] EXCEPT !.bearer = slot]]]
    /\ UNCHANGED <<client, url_out>>

\* The token endpoint answers: lib.rs:110-121, up to the await on send().
TokenResponse(c, resp) ==
    /\ calls[c].pc = "AwaitToken"
    /\ LET next == AfterToken(calls[c], resp)
       IN  /\ calls' = [calls EXCEPT ![c] = next.call]
           /\ sent' = [sent EXCEPT ![c] = @ \o next.send]
    /\ UNCHANGED <<client, url_out>>

\* The user-info endpoint answers: lib.rs:121-127, up to the await on json().
ProfileResponse(c, responses) ==
    /\ calls[c].pc = "AwaitProfile"
    /\ \E resp \in responses :
          calls' = [calls EXCEPT ![c] = AfterProfile(@, resp)]
    /\ UNCHANGED <<client, url_out, sent>>

\* The body is in: lib.rs:127-134.
BodyRead(c) ==
    /\ calls[c].pc = "AwaitBody"
    /\ calls' = [calls EXCEPT ![c] = AfterBody(@)]
    /\ UNCHANGED <<client, url_out, sent>>

\* One configuration that parses and one that does not.
CoreCallbacks == {<<"a", ":">>, <<"a">>}

Next ==
    \/ \E id \in {<<"a">>}, sec \in {<<":", "a">>}, cb \in CoreCallbacks :
          New(id, sec, cb)
    \/ \E csrf \in CsrfTokens : GetRedirectUrl(csrf)
    \/ \E c \in Calls, code \in Codes : Call(c, code)
    \/ \E c \in Calls, resp \in TokenResponses : TokenResponse(c, resp)
    \/ \E c \in Calls : ProfileResponse(c, CoreProfileResponses)
    \/ \E c \in Calls : BodyRead(c)

\* Any number of get_userinfo calls in flight on one client.
Spec == Init /\ [][Next]_vars

\* Construction and get_redirect_url over every input.
NextAuth ==
    \/ \E id \in AppIds, sec \in AppSecrets, cb \in CallbackUrls :
          New(id, sec, cb)
    \/ \E csrf \in CsrfTokens : GetRedirectUrl(csrf)

SpecAuth == Init /\ [][NextAuth]_vars

\* One get_userinfo call on a constructed client, over every body.
InitExchange ==
    /\ client = GoogleNew(<<"a">>, <<":", "a">>, <<"a", ":">>)
    /\ url_out = NoUrl
    /\ InitCalls

NextExchange ==
    \/ \E code \in Codes : Call(1, code)
    \/ \E resp \in TokenResponses : TokenResponse(1, resp)
    \/ ProfileResponse(1, AllProfileResponses)
    \/ BodyRead(1)

SpecExchange == InitExchange /\ [][NextExchange]_vars

\* ================================================================ claims
\* ---------------------------------------------------------------- reading a URL back
DecodeSym(c) ==
    CASE c = "+"   -> " "
      [] c = "%3A" -> ":"
      [] c = "%26" -> "&"
      [] c = "%3D" -> "="
      [] c = "%2B" -> "+"
      [] c = "%25" -> "%"
      [] OTHER     -> c

FormDecode(s) == [i \in 1..Len(s) |-> DecodeSym(s[i])]

FirstIndex(s, sym) ==
    IF \E i \in 1..Len(s) : s[i] = sym
    THEN CHOOSE i \in 1..Len(s) : s[i] = sym /\ \A j \in 1..(i - 1) : s[j] # sym
    ELSE 0

RECURSIVE SplitOn(_, _)
SplitOn(s, sep) ==
    LET i == FirstIndex(s, sep)
    IN  IF i = 0 THEN <<s>>
        ELSE <<SubSeq(s, 1, i - 1)>> \o SplitOn(SubSeq(s, i + 1, Len(s)), sep)

\* The decoded (name, value) pairs of a URL's query, as a server reads them.
QueryPairs(url) ==
    LET q     == SubSeq(url, FirstIndex(url, "?") + 1, Len(url))
        parts == SplitOn(q, "&")
    IN  [i \in 1..Len(parts) |->
           LET e == FirstIndex(parts[i], "=")
           IN  <<FormDecode(SubSeq(parts[i], 1, e - 1)),
                 FormDecode(SubSeq(parts[i], e + 1, Len(parts[i])))>>]

\* The values a query gives for one parameter name, in order.
ValuesOf(pairs, name) ==
    LET idx == {i \in 1..Len(pairs) : pairs[i][1] = <<name>>}
    IN  {pairs[i][2] : i \in idx}

CountOf(pairs, name) == Cardinality({i \in 1..Len(pairs) : pairs[i][1] = <<name>>})

ScopeSet(value) == {w : w \in {SplitOn(value, " ")[i] : i \in 1..Len(SplitOn(value, " "))}}

\* ---------------------------------------------------------------- C7
\* C7: every URL get_redirect_url returns is the authorization endpoint
\* with one scope parameter naming exactly openid, email and profile, one
\* client_id parameter holding the configured client id and one
\* redirect_uri parameter holding the configured redirect URL; it has no
\* parameter besides response_type, client_id, state, redirect_uri and
\* scope, and it is the URL a client with any other secret would return.
C7_AuthUrlCarriesConfigNotSecret ==
    url_out # NoUrl =>
        LET q == QueryPairs(url_out)
        IN  /\ SubSeq(url_out, 1, FirstIndex(url_out, "?") - 1) = AuthUrl
            /\ CountOf(q, "scope") = 1
            /\ \A v \in ValuesOf(q, "scope") :
                  /\ ScopeSet(v) = {<<"openid">>, <<"email">>, <<"profile">>}
                  /\ Len(SplitOn(v, " ")) = 3
            /\ CountOf(q, "client_id") = 1
            /\ ValuesOf(q, "client_id") = {client.client_id}
            /\ CountOf(q, "redirect_uri") = 1
            /\ ValuesOf(q, "redirect_uri") = {client.redirect_url}
            /\ {q[i][1] : i \in 1..Len(q)} =
                  {<<"response_type">>, <<"client_id">>, <<"state">>,
                   <<"redirect_uri">>, <<"scope">>}
            /\ \A sec \in AppSecrets :
                  \E csrf \in CsrfTokens :
                     url_out = AuthorizeUrl([client EXCEPT !.client_secret = sec], csrf)

\* A URL was returned for a client id and a redirect URL that both need
\* escaping.
C7_Witness ==
    /\ url_out # NoUrl
    /\ client.client_id = <<"&">>
    /\ client.redirect_url = <<"a", ":", "&">>

\* ---------------------------------------------------------------- C2
\* C2: Google::new ends either with a client whose redirect URL parses or
\* with the ConfigurationError outcome, and with nothing else.
C2_NewReturnsClientOrConfigurationError ==
    \/ client.state = "NoClient"
    \/ client.state = "ConfigurationError"
    \/ client.state = "Google" /\ UrlParseOk(client.redirect_url)

\* ---------------------------------------------------------------- C10
\* C10: a step that constructs the client or returns an authorization URL
\* sends no request and touches no call; a step that returns a URL returns
\* a non-empty one and leaves the client as it was, so the anti-forgery
\* token lives on in the returned URL alone.
C10_ConstructionAndUrlFrame ==
    [][ /\ (client' # client \/ url_out' # url_out) =>
               (sent' = sent /\ calls' = calls)
        /\ url_out' # url_out =>
               (client' = client /\ url_out' # NoUrl /\ IsGoogle(client))
        /\ client' # client => (client = NoClient /\ url_out' = url_out)
      ]_vars

\* A URL was returned while a call had a request out.
C10_Witness ==
    /\ url_out # NoUrl
    /\ \E c \in Calls : calls[c].pc = "AwaitProfile" /\ Len(sent[c]) = 2

\* ---------------------------------------------------------------- C1
IsGet(r)  == r.method = "GET" /\ r.url = UserInfoUrl
IsPost(r) == r.method = "POST" /\ r.url = TokenUrl

TokenFailed(call) == call.token_resp.kind \in {"transport", "status", "parse"}

\* C1: a call whose token exchange failed has ended with
\* TokenExchangeError and has sent nothing to the user-info endpoint.
C1_TokenFailureStopsBeforeProfile ==
    \A c \in Calls :
        TokenFailed(calls[c]) =>
            /\ calls[c].pc = "Done"
            /\ calls[c].result.kind = "Err"
            /\ calls[c].result.err = "TokenExchangeError"
            /\ calls[c].result.cause = calls[c].token_resp.kind
            /\ \A i \in 1..Len(sent[c]) : ~IsGet(sent[c][i])
            /\ calls[c].profile_resp = NoResponse

\* The token endpoint answered one call with an error status.
C1_Witness ==
    \E c \in Calls : calls[c].token_resp.kind = "status" /\ calls[c].pc = "Done"

\* ---------------------------------------------------------------- C3
\* C3: after a token, a user-info response whose status is not a success
\* ends the call with ProfileFetchError, and the call never reached the
\* point where the body is parsed, whatever the body is.
C3_BadStatusNotParsed ==
    \A c \in Calls :
        (/\ calls[c].token_resp.kind = "ok"
         /\ calls[c].profile_resp.kind = "http"
         /\ ~IsSuccess(calls[c].profile_resp.status)) =>
            /\ calls[c].pc = "Done"
            /\ calls[c].result.kind = "Err"
            /\ calls[c].result.err = "ProfileFetchError"
            /\ calls[c].result.cause = "status"
            /\ \A i \in 1..Len(calls[c].trace) : calls[c].trace[i] # "AwaitBody"

\* A 401 came with a body that would have parsed.
C3_Witness ==
    \E c \in Calls :
        /\ calls[c].profile_resp.kind = "http"
        /\ calls[c].profile_resp.status = 401
        /\ calls[c].profile_resp.body = FullBody
        /\ calls[c].pc = "Done"

\* ---------------------------------------------------------------- C4
\* The shape section 6 of the spec asks of the required members.
RequiredOk(body) ==
    /\ body.json
    /\ \A f \in RequiredStrings : body.obj[f].t = "string"
    /\ body.obj["email_verified"].t = "bool"

OptionalAbsentOrString(body) ==
    \A f \in OptionalStrings : body.obj[f].t \in {"absent", "string"}

GotSuccessStatus(call) ==
    /\ call.token_resp.kind = "ok"
    /\ call.profile_resp.kind = "http"
    /\ IsSuccess(call.profile_resp.status)

\* C4: when both requests succeeded, a body that lacks a required member
\* or has one of the wrong type ends the call with ProfileParseError, not
\* with ProfileFetchError or TokenExchangeError; a body whose required
\* members are right and whose optional members are strings or missing
\* ends it with a profile.
C4_ShapeMismatchIsParseError ==
    \A c \in Calls :
        (calls[c].pc = "Done" /\ GotSuccessStatus(calls[c])) =>
            LET body == calls[c].profile_resp.body
            IN  /\ ~RequiredOk(body) =>
                      /\ calls[c].result.kind = "Err"
                      /\ calls[c].result.err = "ProfileParseError"
                      /\ calls[c].result.err \notin
                            {"ProfileFetchError", "TokenExchangeError"}
                /\ (RequiredOk(body) /\ OptionalAbsentOrString(body)) =>
                      calls[c].result.kind = "Ok"

\* The body lacked "sub" and nothing else, and the call ended.
C4_Witness ==
    \E c \in Calls :
        /\ calls[c].pc = "Done"
        /\ GotSuccessStatus(calls[c])
        /\ calls[c].profile_resp.body = NoSubBody
        /\ calls[c].result.err = "ProfileParseError"

\* ---------------------------------------------------------------- C5
\* C5: a call has a profile only if its token exchange succeeded, its
\* user-info response had a success status and its body had the required
\* members, and then the profile holds the body's sub and email; a call
\* that failed or has not ended has no profile at all.
C5_AllOrNothing ==
    \A c \in Calls :
        LET call == calls[c]
        IN  /\ call.result.kind \in {"Pending", "Ok", "Err"}
            /\ (call.pc = "Done") <=> (call.result.kind # "Pending")
            /\ call.result.kind = "Ok" =>
                  /\ GotSuccessStatus(call)
                  /\ RequiredOk(call.profile_resp.body)
                  /\ call.result.value # NoUserInfo
                  /\ call.profile_resp.body.obj["sub"].t = "string"
                  /\ call.result.value.open_id = call.profile_resp.body.obj["sub"].v
                  /\ call.profile_resp.body.obj["email"].t = "string"
                  /\ call.result.value.email = call.profile_resp.body.obj["email"].v
            /\ call.result.kind # "Ok" => call.result.value = NoUserInfo

\* A body with every member right but a number for a locale: the call
\* ended with an error and no profile.
C5_Witness ==
    \E c \in Calls :
        /\ calls[c].pc = "Done"
        /\ calls[c].result.kind = "Err"
        /\ calls[c].result.err = "ProfileParseError"
        /\ calls[c].profile_resp.body = [FullBody EXCEPT !.obj["locale"] = JNum]

\* ---------------------------------------------------------------- C6
\* Start -> TokenAcquired -> ProfileFetched -> Done, with the positions of
\* the future: AwaitToken is Start with the POST out, AwaitProfile is
\* TokenAcquired with the GET out, AwaitBody is ProfileFetched.
Forward ==
    {<<"Start", "AwaitToken">>, <<"AwaitToken", "AwaitProfile">>,
     <<"AwaitProfile", "AwaitBody">>, <<"AwaitBody", "Done">>,
     <<"AwaitToken", "Done">>, <<"AwaitProfile", "Done">>}

Visited(call, pc) == \E i \in 1..Len(call.trace) : call.trace[i] = pc

LinearSoFar(c) ==
    LET call == calls[c]
        n    == Len(call.trace)
    IN  /\ call.trace[n] = call.pc
        /\ \A i \in 1..(n - 1) : <<call.trace[i], call.trace[i + 1]>> \in Forward
        /\ \A i, j \in 1..n : i # j => call.trace[i] # call.trace[j]
        /\ Cardinality({i \in 1..Len(sent[c]) : IsPost(sent[c][i])}) <= 1
        /\ Cardinality({i \in 1..Len(sent[c]) : IsGet(sent[c][i])}) <= 1
        /\ \A i \in 1..Len(sent[c]) : IsPost(sent[c][i]) \/ IsGet(sent[c][i])
        /\ \A i \in 1..Len(sent[c]) :
              IsGet(sent[c][i]) =>
                 /\ call.token_resp.kind = "ok"
                 /\ \E j \in 1..(i - 1) : IsPost(sent[c][j])
        /\ Len(sent[c]) = (IF Visited(call, "AwaitToken") THEN 1 ELSE 0)
                          + (IF Visited(call, "AwaitProfile") THEN 1 ELSE 0)
        /\ call.result.kind = "Err" => call.pc = "Done"

\* C6: every call has gone forward only, through positions it had not been
\* in, with at most one POST and at most one GET, the GET after the POST
\* and after a token; the step in which a call fails sends nothing and
\* ends it, and a call that has ended does nothing more.
C6_StrictlyLinear ==
    /\ [](\A c \in Calls : LinearSoFar(c))
    /\ [][\A c \in Calls :
            /\ calls[c].pc = "Done" => (calls'[c] = calls[c] /\ sent'[c] = sent[c])
            /\ (calls[c].result.kind # "Err" /\ calls'[c].result.kind = "Err") =>
                  (sent'[c] = sent[c] /\ calls'[c].pc = "Done")
         ]_vars

\* One call went all the way and another stopped at the user-info status.
C6_Witness ==
    \E c, d \in Calls :
        /\ calls[c].trace = <<"Start", "AwaitToken", "AwaitProfile", "AwaitBody", "Done">>
        /\ calls[d].trace = <<"Start", "AwaitToken", "AwaitProfile", "Done">>
        /\ Len(sent[c]) = 2
        /\ Len(sent[d]) = 2

\* ---------------------------------------------------------------- C8
\* C8: after a token and a success status, a body with the required
\* members and with optional members that are strings or missing gives a
\* profile with open_id = sub, username = name, profile_url = picture,
\* email = email, email_verified = email_verified, and each optional
\* member None exactly when the body does not have it.
C8_FieldMapping ==
    \A c \in Calls :
        LET call == calls[c]
            body == call.profile_resp.body
        IN  (/\ call.pc = "Done"
             /\ GotSuccessStatus(call)
             /\ RequiredOk(body)
             /\ OptionalAbsentOrString(body)) =>
                /\ call.result.kind = "Ok"
                /\ call.result.value.open_id = body.obj["sub"].v
                /\ call.result.value.username = body.obj["name"].v
                /\ call.result.value.profile_url = body.obj["picture"].v
                /\ call.result.value.email = body.obj["email"].v
                /\ call.result.value.email_verified = (body.obj["email_verified"].v = "true")
                /\ \A f \in OptionalStrings :
                      /\ (call.result.value[f] = None) <=> (body.obj[f].t = "absent")
                      /\ body.obj[f].t = "string" =>
                            call.result.value[f] = Some(body.obj[f].v)

\* The body of the spec's example came back and the call ended.
C8_Witness ==
    \E c \in Calls :
        /\ calls[c].pc = "Done"
        /\ GotSuccessStatus(calls[c])
        /\ calls[c].profile_resp.body = MinimalBody
        /\ calls[c].result.kind = "Ok"

\* ---------------------------------------------------------------- C9
OwnRequests(c) ==
    \A i \in 1..Len(sent[c]) :
        /\ IsGet(sent[c][i]) =>
              /\ calls[c].token_resp.kind = "ok"
              /\ sent[c][i].bearer = calls[c].token_resp.access_token
        /\ IsPost(sent[c][i]) =>
              /\ sent[c][i].code = calls[c].code
              /\ sent[c][i].client_id = client.client_id
              /\ sent[c][i].client_secret = client.client_secret
              /\ sent[c][i].redirect_uri = client.redirect_url

SameInputsSameResult(c, d) ==
    (/\ calls[c].pc = "Done"
     /\ calls[d].pc = "Done"
     /\ calls[c].token_resp = calls[d].token_resp
     /\ calls[c].profile_resp = calls[d].profile_resp) =>
        calls[c].result = calls[d].result

\* C9: whatever the interleaving, the GET of a call carries the token its
\* own POST was answered with and its POST carries its own code; two calls
\* that got the same two responses ended the same way; a step of one call
\* changes nothing of another; a constructed client never changes.
C9_CallsDoNotInterfere ==
    /\ [](\A c \in Calls : OwnRequests(c))
    /\ [](\A c, d \in Calls : SameInputsSameResult(c, d))
    /\ [][/\ IsGoogle(client) => client' = client
          /\ \A c, d \in Calls :
                (c # d /\ (calls'[c] # calls[c] \/ sent'[c] # sent[c])) =>
                    (calls'[d] = calls[d] /\ sent'[d] = sent[d])
         ]_vars

\* Two calls in flight at once, each with a token of its own.
C9_Witness ==
    \E c, d \in Calls :
        /\ c # d
        /\ calls[c].pc = "AwaitProfile"
        /\ calls[d].pc = "AwaitProfile"
        /\ calls[c].token = "t1"
        /\ calls[d].token = "t2"
        /\ calls[c].code # calls[d].code

====
